---- MODULE Spec2Model ----
(***************************************************************************)
(* The tool-calling agent loop of src/app.js (class LLMAgent): one user    *)
(* turn starts agentLoop, which alternates model calls (callLLM) and tool  *)
(* batches (handleToolCall) until a response carries no tool calls or an   *)
(* exception reaches agentLoop's catch.                                    *)
(*                                                                         *)
(* JavaScript runs every handler to completion: a user event (submit,      *)
(* clear, save configuration) is dispatched only while the loop is         *)
(* suspended on a real wait (fetch, response.json(), the setTimeout of     *)
(* delay) or not running.  Continuations that follow an await of an        *)
(* already-settled promise are microtasks and cannot be interleaved with   *)
(* user events.  The variable pc is the loop's position.                   *)
(*                                                                         *)
(* Text is modelled as a sequence of fragments (strings): a template       *)
(* literal `a ${x} b` is <<"a ", x, " b">>.                                 *)
(***************************************************************************)
EXTENDS Integers, Sequences, FiniteSets, TLC

VARIABLES
    conversation,   \* this.conversation: the turns sent to the model
    llmConfig,      \* this.llmConfig: NoConfig (null) or a saved configuration
    isProcessing,   \* this.isProcessing
    pc,             \* position of agentLoop (see PcValues)
    batch,          \* response.tool_calls of the response being handled
    idx,            \* index in batch of the tool call the for-loop is at
    request,        \* payload of callLLM while its request is pending
    shownError,     \* error.message last shown by the catch block of agentLoop
    toolResult,     \* arguments of the last showToolResult, with the call answered
    consoleLog,     \* what console.log is bound to
    pending,        \* history: awaits of the session not yet settled, by kind
    answered,       \* history: tool_call_ids pushed since the last assistant turn
    modelCalls,     \* history: model calls made by the current invocation of agentLoop
    toolExecs,      \* history: handleToolCall invocations of the current agentLoop
    responses,      \* history: number of tool calls of each response of the current agentLoop
    emitted,        \* history: tool calls the model has returned in the whole run
    accepted,       \* history: user turns accepted in the whole run
    lastCall        \* history: how the last call of handleUserMessage ended

vars == <<conversation, llmConfig, isProcessing, pc, batch, idx, request, shownError, toolResult,
          consoleLog, pending, answered, modelCalls, toolExecs, responses, emitted, accepted,
          lastCall>>

(***************************************************************************)
(* Bounds of the model.                                                    *)
(***************************************************************************)
\* user turns accepted in one run
MaxSubmits == 2
\* tool calls the model returns in one run, over all its responses
MaxToolCalls == 2

(***************************************************************************)
(* JavaScript values.                                                      *)
(***************************************************************************)
\* the value undefined, and what a template literal prints for it
Undefined == "undefined"
\* a null content of an assistant message
NullContent == <<"null">>
NoConfig == "null"
SavedConfig == "openai gpt-3.5-turbo"
NoError == <<>>

PcValues == {"AwaitingUser", "Failed", "loop", "fetch", "json", "exec", "delay"}

\* the positions at which agentLoop is not running or is suspended on a
\* macrotask, so that the browser can dispatch a user event
Interruptible == pc \in {"AwaitingUser", "Failed", "fetch", "json", "delay"}

(***************************************************************************)
(* initializeTools: the registry sent with every request.                  *)
(***************************************************************************)
initializeTools ==
    << [name |-> "search_web", required |-> {"query"}],
       [name |-> "ai_pipe",    required |-> {"workflow"}],
       [name |-> "execute_js", required |-> {"code"}] >>

RegisteredNames == {initializeTools[i].name : i \in 1..Len(initializeTools)}

RequiredOf(name) ==
    (CHOOSE t \in {initializeTools[i] : i \in 1..Len(initializeTools)} : t.name = name).required

(***************************************************************************)
(* JSON.parse on the arguments strings the model may send.  A parsed       *)
(* object is its set of <<key, value>> entries.                            *)
(***************************************************************************)
ArgsQuery    == "{\"query\":\"tla\"}"
ArgsWorkflow == "{\"workflow\":\"summarise\"}"
ArgsCodeOk   == "{\"code\":\"1+1\"}"
ArgsCodeLog  == "{\"code\":\"console.log('hi')\"}"
ArgsCodeBoom == "{\"code\":\"throw new Error('boom')\"}"
ArgsCodeBoth == "{\"code\":\"console.log('hi'); 2\"}"
ArgsCodeObj  == "{\"code\":\"({a: 1})\"}"
ArgsCodeLoop == "{\"code\":\"var o = {}; o.o = o; o\"}"
ArgsEmpty    == "{}"
ArgsNull     == "null"
ArgsBad      == "{\"query\": tla"

Parsed(tag, entries) == [threw |-> FALSE, tag |-> tag, entries |-> entries, message |-> <<>>]
Thrown(message)      == [threw |-> TRUE, tag |-> "none", entries |-> {}, message |-> message]

JSONParse(text) ==
    CASE text = ArgsQuery    -> Parsed("object", {<<"query", "tla">>})
      [] text = ArgsWorkflow -> Parsed("object", {<<"workflow", "summarise">>})
      [] text = ArgsCodeOk   -> Parsed("object", {<<"code", "1+1">>})
      [] text = ArgsCodeLog  -> Parsed("object", {<<"code", "console.log('hi')">>})
      [] text = ArgsCodeBoom -> Parsed("object", {<<"code", "throw new Error('boom')">>})
      [] text = ArgsCodeBoth -> Parsed("object", {<<"code", "console.log('hi'); 2">>})
      [] text = ArgsCodeObj  -> Parsed("object", {<<"code", "({a: 1})">>})
      [] text = ArgsCodeLoop -> Parsed("object", {<<"code", "var o = {}; o.o = o; o">>})
      [] text = ArgsEmpty    -> Parsed("object", {})
      [] text = ArgsNull     -> Parsed("null", {})
      [] OTHER               -> Thrown(<<"Unexpected token t in JSON at position 10">>)

\* obj.key, undefined when the object has no such property
Field(obj, key) ==
    IF \E e \in obj.entries : e[1] = key
    THEN (CHOOSE e \in obj.entries : e[1] = key)[2]
    ELSE Undefined

(***************************************************************************)
(* Turns and tool calls.  A tool call is {id, function: {name, arguments}} *)
(* with the function record flattened.                                     *)
(***************************************************************************)
ToolCall(id, name, arguments) == [id |-> id, name |-> name, arguments |-> arguments]

Turn(role, content, tool_calls, has_tool_calls, tool_call_id) ==
    [role |-> role, content |-> content, tool_calls |-> tool_calls,
     has_tool_calls |-> has_tool_calls, tool_call_id |-> tool_call_id]

UserTurn(content)      == Turn("user", content, <<>>, FALSE, "")
AssistantTurn(message) == Turn("assistant", message.content, message.tool_calls,
                               message.has_tool_calls, "")
ToolTurn(id, content)  == Turn("tool", content, <<>>, FALSE, id)

Ids(calls) == [i \in 1..Len(calls) |-> calls[i].id]

(***************************************************************************)
(* String.prototype.trim on the text of the message input, a sequence of   *)
(* characters.                                                             *)
(***************************************************************************)
RECURSIVE TrimStart(_)
TrimStart(s) == IF s # <<>> /\ Head(s) = " " THEN TrimStart(Tail(s)) ELSE s

RECURSIVE TrimEnd(_)
TrimEnd(s) == IF s # <<>> /\ s[Len(s)] = " " THEN TrimEnd(SubSeq(s, 1, Len(s) - 1)) ELSE s

\* the text of the input taken as it is
NotTrimmed(s) == s

Trim(s) == TrimEnd(TrimStart(s))

(***************************************************************************)
(* showToolCall: renders the call; parses the arguments and lists their    *)
(* entries, outside any try block.                                         *)
(***************************************************************************)
showToolCall(toolCall) ==
    LET toolArgs == JSONParse(toolCall.arguments) IN
    IF toolArgs.threw THEN toolArgs
    ELSE IF toolArgs.tag = "null"
         THEN Thrown(<<"Cannot convert undefined or null to object">>)
         ELSE toolArgs

(***************************************************************************)
(* The tool handlers.  A handler's outcome is either a thrown error or a   *)
(* returned text.                                                          *)
(***************************************************************************)
Returned(text)  == [threw |-> FALSE, type |-> "string", text |-> text, message |-> <<>>]
Raised(message) == [threw |-> TRUE, type |-> "undefined", text |-> <<>>, message |-> message]

\* parameter destructuring ({ query }) of a value that is null
DestructureThrows(args) == args.tag = "null"
DestructureError(key) ==
    <<"Cannot destructure property '", key, "' of 'object null' as it is null.">>

searchWeb(args) ==
    IF DestructureThrows(args) THEN Raised(DestructureError("query"))
    ELSE LET query == Field(args, "query") IN
         Returned(<<"Search results for \"", query, "\":\n\n1. **", query,
                    " - Official Website**\n   Comprehensive information about ", query,
                    "\n\n2. **", query, " News - Latest Updates**\n   Recent news related to ",
                    query, "\n\n3. **", query, " Wikipedia**\n   Detailed encyclopedia entry about ",
                    query, ".\n\n*Note: This is a simulated search result.*">>)

aiPipe(args) ==
    IF DestructureThrows(args) THEN Raised(DestructureError("workflow"))
    ELSE LET workflow == Field(args, "workflow")
             data     == IF Field(args, "data") = Undefined THEN "" ELSE Field(args, "data")
         IN  Returned(<<"AI Pipe Workflow: \"", workflow, "\"\nInput Data: ",
                        (IF data # "" THEN data ELSE "None provided"),
                        "\n\nProcessed Result: This is a simulated AI workflow result.">>)

\* eval on the code strings the model may send: the error thrown, or the
\* text written with console.log and the value of the last expression with
\* its typeof (an object value is named by its literal)
Evaluated(logs, type, value) ==
    [threw |-> FALSE, message |-> "", logs |-> logs, type |-> type, value |-> value]
EvalThrew(message) ==
    [threw |-> TRUE, message |-> message, logs |-> <<>>, type |-> "undefined",
     value |-> Undefined]

Eval(code) ==
    CASE code = "1+1"                     -> Evaluated(<<>>, "number", "2")
      [] code = "console.log('hi')"       -> Evaluated(<<"hi", "\n">>, "undefined", Undefined)
      [] code = "throw new Error('boom')" -> EvalThrew("boom")
      [] code = "console.log('hi'); 2"    -> Evaluated(<<"hi", "\n">>, "number", "2")
      [] code = "({a: 1})"                -> Evaluated(<<>>, "object", "{a: 1}")
      [] code = "var o = {}; o.o = o; o"  -> Evaluated(<<>>, "object", "{o: [Circular]}")
      [] code = Undefined                 -> Evaluated(<<>>, "undefined", Undefined)
      [] OTHER                            -> EvalThrew("Unexpected identifier")

\* JSON.stringify(result, null, 2) on the object values eval may return
StringifyIndented(value) ==
    IF value = "{a: 1}"
    THEN [threw |-> FALSE, text |-> "{\n  \"a\": 1\n}", message |-> ""]
    ELSE [threw |-> TRUE, text |-> "", message |-> "Converting circular structure to JSON"]

\* an exit that leaves the capturing wrapper installed
NotRestored(originalLog) == "capture"

\* console.log = originalLog, in the try block and in the catch block
Restored(originalLog) == originalLog

\* executeJS: the outcome, and the binding of console.log when it returns
executeJS(args, originalLog) ==
    IF DestructureThrows(args)
    THEN [outcome |-> Raised(DestructureError("code")), consoleLog |-> originalLog]
    ELSE LET code      == Field(args, "code")
             ran       == Eval(code)
             console   == IF ran.logs # <<>> THEN <<"Console Output:\n">> \o ran.logs ELSE <<>>
             separator == IF console # <<>> THEN <<"\n\n">> ELSE <<>>
             shown     == IF ran.type = "object"
                          THEN StringifyIndented(ran.value)
                          ELSE [threw |-> FALSE, text |-> ran.value, message |-> ""]
             output    == IF ran.value # Undefined
                          THEN console \o separator \o <<"Return Value:\n", shown.text>>
                          ELSE console
         IN  IF ran.threw
             THEN [outcome |-> Raised(<<"JavaScript execution error: ", ran.message>>),
                   consoleLog |-> Restored(originalLog)]
             ELSE IF ran.value # Undefined /\ shown.threw
                  THEN [outcome |-> Raised(<<"JavaScript execution error: ", shown.message>>),
                        consoleLog |-> Restored(originalLog)]
                  ELSE [outcome |-> Returned(IF output # <<>> THEN output
                                             ELSE <<"Code executed successfully (no output)">>),
                        consoleLog |-> Restored(originalLog)]

(***************************************************************************)
(* handleToolCall.  Dispatch is its switch: the handler's outcome, whether *)
(* the handler waits on delay() before returning, and console.log after.   *)
(***************************************************************************)
Dispatched(outcome, suspends, log) ==
    [outcome |-> outcome, suspends |-> suspends, consoleLog |-> log]

Dispatch(toolCall, originalLog) ==
    LET args == JSONParse(toolCall.arguments) IN
    CASE toolCall.name = "search_web" ->
            IF args.threw THEN Dispatched(Raised(args.message), FALSE, originalLog)
            ELSE Dispatched(searchWeb(args), ~searchWeb(args).threw, originalLog)
      [] toolCall.name = "ai_pipe" ->
            IF args.threw THEN Dispatched(Raised(args.message), FALSE, originalLog)
            ELSE Dispatched(aiPipe(args), ~aiPipe(args).threw, originalLog)
      [] toolCall.name = "execute_js" ->
            IF args.threw THEN Dispatched(Raised(args.message), FALSE, originalLog)
            ELSE Dispatched(executeJS(args, originalLog).outcome, FALSE,
                            executeJS(args, originalLog).consoleLog)
      [] OTHER -> Dispatched(Raised(<<"Unknown tool: ", toolCall.name>>), FALSE, originalLog)

\* JSON.stringify of a text
JSONStringify(text) == <<"\"">> \o text \o <<"\"">>

\* a content that is serialised whatever the type of the result
ToolContentStringified(result) == JSONStringify(result.text)

\* content of the tool turn pushed for a handler's result
ToolContent(result) == IF result.type = "string" THEN result.text ELSE JSONStringify(result.text)

\* handleToolCall, run to its end: either showToolCall's exception leaves
\* the function, or one tool turn is to be pushed (after the handler's wait,
\* when it has one)
ToolCallOutcome(toolCall, originalLog) ==
    LET shown == showToolCall(toolCall)
        d     == Dispatch(toolCall, originalLog)
    IN  IF shown.threw
        THEN [propagates |-> TRUE, message |-> shown.message, suspends |-> FALSE,
              content |-> <<>>, isError |-> TRUE, consoleLog |-> originalLog]
        ELSE [propagates |-> FALSE, message |-> <<>>, suspends |-> d.suspends,
              content |-> IF d.outcome.threw
                          THEN <<"Tool execution failed: ">> \o d.outcome.message
                          ELSE ToolContent(d.outcome),
              isError |-> d.outcome.threw, consoleLog |-> d.consoleLog]

(***************************************************************************)
(* What the environment supplies.                                          *)
(***************************************************************************)
\* texts of the message input when handleUserMessage is called
Inputs == { <<>>, <<" ">>, <<"h", "i">>, <<" ", "h", "i", " ">> }

\* name and arguments of the tool calls the model may return
ToolCallInputs ==
    { <<"search_web", ArgsQuery>>, <<"search_web", ArgsEmpty>>, <<"search_web", ArgsBad>>,
      <<"ai_pipe", ArgsWorkflow>>, <<"ai_pipe", ArgsEmpty>>,
      <<"execute_js", ArgsCodeOk>>, <<"execute_js", ArgsCodeLog>>,
      <<"execute_js", ArgsCodeBoom>>, <<"execute_js", ArgsEmpty>>,
      <<"execute_js", ArgsCodeBoth>>, <<"execute_js", ArgsCodeObj>>,
      <<"execute_js", ArgsCodeLoop>>,
      <<"does_not_exist", ArgsQuery>>, <<"does_not_exist", ArgsNull>> }

\* the tool_calls lists of n calls; ids are unique over the run
ToolCallLists(n, first) ==
    { [i \in 1..n |-> ToolCall("call_" \o ToString(first + i), f[i][1], f[i][2])] :
        f \in [1..n -> ToolCallInputs] }

\* the messages data.choices[0].message may be, with at most budget tool calls
Messages(budget, first) ==
    { [content |-> <<"answer">>, tool_calls |-> <<>>, has_tool_calls |-> h] : h \in BOOLEAN }
    \cup
    { [content |-> NullContent, tool_calls |-> calls, has_tool_calls |-> TRUE] :
        calls \in UNION { ToolCallLists(n, first) : n \in 1..budget } }

\* HTTP statuses of the backend's response
Statuses == {200, 500}
ResponseOk(status) == status >= 200 /\ status <= 299

\* what response.json() and data.choices[0].message may fail with
PayloadErrors ==
    { <<"Unexpected end of JSON input">>,
      <<"Cannot read properties of undefined (reading '0')">>,
      <<"Cannot read properties of undefined (reading 'content')">> }

(***************************************************************************)
(* The state after the constructor.                                        *)
(***************************************************************************)
NoRequest    == [model |-> NoConfig, messages |-> <<>>, tools |-> <<>>]
NoToolResult == [call |-> ToolCall("", "", ""), result |-> <<>>, isError |-> FALSE]
NonePending  == [model |-> 0, tool |-> 0]

\* an await on the backend ("model") or on a handler's delay ("tool") begins
\* or is settled
Awaiting(kind) == [pending EXCEPT ![kind] = @ + 1]
Settled(kind)  == [pending EXCEPT ![kind] = @ - 1]

Init ==
    /\ conversation = <<>>
    /\ llmConfig = NoConfig
    /\ isProcessing = FALSE
    /\ pc = "AwaitingUser"
    /\ batch = <<>>
    /\ idx = 0
    /\ request = NoRequest
    /\ shownError = NoError
    /\ toolResult = NoToolResult
    /\ consoleLog = "native"
    /\ pending = NonePending
    /\ answered = <<>>
    /\ modelCalls = 0
    /\ toolExecs = 0
    /\ responses = <<>>
    /\ emitted = 0
    /\ accepted = 0
    /\ lastCall = "none"

(***************************************************************************)
(* saveLLMConfiguration (the simple form: an empty API key is refused).    *)
(***************************************************************************)
saveLLMConfiguration(apiKey) ==
    /\ Interruptible
    /\ IF apiKey = ""
       THEN UNCHANGED llmConfig
       ELSE llmConfig' = SavedConfig
    /\ UNCHANGED <<conversation, isProcessing, pc, batch, idx, request, shownError, toolResult,
                   consoleLog, pending, answered, modelCalls, toolExecs, responses, emitted,
                   accepted, lastCall>>

(***************************************************************************)
(* handleUserMessage, up to the call of agentLoop.                         *)
(***************************************************************************)
\* the first guard: nothing to send, or a loop is running
RejectsEmptyOnly(message, busy) == message = <<>>

Rejects(message, busy) == message = <<>> \/ busy

\* how the call ends, for the history
Ending(message) ==
    IF isProcessing THEN "busy"
    ELSE IF message = <<>> THEN "empty"
    ELSE IF llmConfig = NoConfig THEN "unconfigured"
    ELSE "accepted"

handleUserMessage(input) ==
    LET message == Trim(input) IN
    /\ Interruptible
    /\ Ending(message) = "accepted" => accepted < MaxSubmits
    /\ lastCall' = Ending(message)
    /\ accepted' = IF Ending(message) = "accepted" THEN accepted + 1 ELSE accepted
    /\ IF Rejects(message, isProcessing)
       THEN UNCHANGED <<conversation, isProcessing, pc, modelCalls, toolExecs, responses>>
       ELSE IF llmConfig = NoConfig
            THEN UNCHANGED <<conversation, isProcessing, pc, modelCalls, toolExecs, responses>>
            ELSE /\ isProcessing' = TRUE
                 /\ conversation' = Append(conversation, UserTurn(message))
                 /\ pc' = "loop"
                 /\ modelCalls' = 0
                 /\ toolExecs' = 0
                 /\ responses' = <<>>
    /\ UNCHANGED <<llmConfig, batch, idx, request, shownError, toolResult, consoleLog,
                   pending, answered, emitted>>

(***************************************************************************)
(* agentLoop: its catch and finally blocks, and its normal end.            *)
(***************************************************************************)
\* a catch block that records the error as a turn of the conversation
AgentLoopCatchPushesError(message) ==
    /\ shownError' = message
    /\ conversation' = Append(conversation,
                              Turn("system", <<"Error: ">> \o message, <<>>, FALSE, ""))
    /\ isProcessing' = FALSE
    /\ pc' = "Failed"

\* a catch block that goes round the while-loop again
AgentLoopCatchRetries(message) ==
    /\ shownError' = message
    /\ UNCHANGED <<conversation, isProcessing>>
    /\ pc' = "loop"

\* catch: the error is shown in an alert and in the message list (not in
\* the conversation); finally: setProcessingState(false)
AgentLoopCatch(message) ==
    /\ shownError' = message
    /\ UNCHANGED conversation
    /\ isProcessing' = FALSE
    /\ pc' = "Failed"

\* a loop that does not set needsUserInput and calls the model again
AgentLoopKeepsLooping ==
    /\ UNCHANGED isProcessing
    /\ pc' = "loop"

\* an end of the loop without the finally block
AgentLoopReturnKeepsBusy ==
    /\ UNCHANGED isProcessing
    /\ pc' = "AwaitingUser"

\* needsUserInput = true ends the while-loop; finally: setProcessingState(false)
AgentLoopReturn ==
    /\ isProcessing' = FALSE
    /\ pc' = "AwaitingUser"

(***************************************************************************)
(* callLLM: the request is built from the conversation and sent.           *)
(***************************************************************************)
\* a while-loop that gives up after its first round
callLLMCapped ==
    /\ pc = "loop"
    /\ modelCalls < 1
    /\ request' = [model |-> llmConfig, messages |-> conversation, tools |-> initializeTools]
    /\ modelCalls' = modelCalls + 1
    /\ pending' = Awaiting("model")
    /\ pc' = "fetch"
    /\ UNCHANGED <<conversation, llmConfig, isProcessing, batch, idx, shownError, toolResult,
                   consoleLog, answered, toolExecs, responses, emitted, accepted, lastCall>>

callLLM ==
    /\ pc = "loop"
    /\ request' = [model |-> llmConfig, messages |-> conversation, tools |-> initializeTools]
    /\ modelCalls' = modelCalls + 1
    /\ pending' = Awaiting("model")
    /\ pc' = "fetch"
    /\ UNCHANGED <<conversation, llmConfig, isProcessing, batch, idx, shownError, toolResult,
                   consoleLog, answered, toolExecs, responses, emitted, accepted, lastCall>>

\* fetch rejects: the network failed
FetchRejected ==
    /\ pc = "fetch"
    /\ AgentLoopCatch(<<"Failed to fetch">>)
    /\ request' = NoRequest
    /\ pending' = Settled("model")
    /\ UNCHANGED <<llmConfig, batch, idx, toolResult, consoleLog,
                   answered, modelCalls, toolExecs, responses, emitted, accepted, lastCall>>

\* fetch resolves with a response of the given status
FetchResolved(status) ==
    /\ pc = "fetch"
    /\ IF ~ResponseOk(status)
       THEN /\ AgentLoopCatch(<<"LLM API error: ", ToString(status)>>)
            /\ request' = NoRequest
            /\ pending' = Settled("model")
       ELSE /\ pc' = "json"
            /\ UNCHANGED <<conversation, request, shownError, isProcessing, pending>>
    /\ UNCHANGED <<llmConfig, batch, idx, toolResult, consoleLog,
                   answered, modelCalls, toolExecs, responses, emitted, accepted, lastCall>>

\* response.json() rejects, or the payload has no choices[0].message
PayloadRejected(error) ==
    /\ pc = "json"
    /\ AgentLoopCatch(error)
    /\ request' = NoRequest
    /\ pending' = Settled("model")
    /\ UNCHANGED <<llmConfig, batch, idx, toolResult, consoleLog,
                   answered, modelCalls, toolExecs, responses, emitted, accepted, lastCall>>

\* the payload carries a message: callLLM pushes the assistant turn and
\* agentLoop branches on its tool calls
MessageReceived(message) ==
    /\ pc = "json"
    /\ conversation' = Append(conversation, AssistantTurn(message))
    /\ batch' = message.tool_calls
    /\ answered' = <<>>
    /\ responses' = Append(responses, Len(message.tool_calls))
    /\ emitted' = emitted + Len(message.tool_calls)
    /\ IF message.has_tool_calls /\ Len(message.tool_calls) > 0
       THEN /\ pc' = "exec"
            /\ idx' = 1
            /\ UNCHANGED isProcessing
       ELSE /\ AgentLoopReturn
            /\ idx' = 0
    /\ request' = NoRequest
    /\ pending' = Settled("model")
    /\ UNCHANGED <<llmConfig, shownError, toolResult, consoleLog, modelCalls, toolExecs,
                   accepted, lastCall>>

(***************************************************************************)
(* The for-loop over response.tool_calls.                                  *)
(***************************************************************************)
\* a push that writes the tool turn over the last turn of the conversation
PushToolTurnOverwrites(toolCall, done) ==
    /\ toolResult' = [call |-> toolCall, result |-> done.content, isError |-> done.isError]
    /\ conversation' = IF conversation = <<>>
                       THEN <<ToolTurn(toolCall.id, done.content)>>
                       ELSE [conversation EXCEPT ![Len(conversation)] =
                                ToolTurn(toolCall.id, done.content)]
    /\ answered' = Append(answered, toolCall.id)
    /\ IF idx < Len(batch)
       THEN /\ idx' = idx + 1
            /\ pc' = "exec"
       ELSE /\ idx' = 0
            /\ pc' = "loop"

\* the tool turn is pushed and the for-loop moves on; after the last call
\* the while-loop calls the model again
PushToolTurn(toolCall, done) ==
    /\ toolResult' = [call |-> toolCall, result |-> done.content, isError |-> done.isError]
    /\ conversation' = Append(conversation, ToolTurn(toolCall.id, done.content))
    /\ answered' = Append(answered, toolCall.id)
    /\ IF idx < Len(batch)
       THEN /\ idx' = idx + 1
            /\ pc' = "exec"
       ELSE /\ idx' = 0
            /\ pc' = "loop"

\* a for-loop that does not await handleToolCall: a handler that waits is
\* left running and the loop goes on to the next call
handleToolCallNotAwaited ==
    LET toolCall == batch[idx]
        done     == ToolCallOutcome(toolCall, consoleLog)
    IN  /\ pc = "exec"
        /\ toolExecs' = toolExecs + 1
        /\ consoleLog' = done.consoleLog
        /\ IF done.propagates
           THEN /\ AgentLoopCatch(done.message)
                /\ UNCHANGED <<idx, toolResult, answered, pending>>
           ELSE IF done.suspends
                THEN /\ pending' = Awaiting("tool")
                     /\ IF idx < Len(batch)
                        THEN idx' = idx + 1 /\ pc' = "exec"
                        ELSE idx' = 0 /\ pc' = "loop"
                     /\ UNCHANGED <<conversation, toolResult, answered, shownError,
                                    isProcessing>>
                ELSE /\ PushToolTurn(toolCall, done)
                     /\ UNCHANGED <<shownError, isProcessing, pending>>
        /\ UNCHANGED <<llmConfig, batch, request, modelCalls, responses, emitted, accepted,
                       lastCall>>

\* handleToolCall is entered; it ends at once unless its handler waits
handleToolCall ==
    LET toolCall == batch[idx]
        done     == ToolCallOutcome(toolCall, consoleLog)
    IN  /\ pc = "exec"
        /\ toolExecs' = toolExecs + 1
        /\ consoleLog' = done.consoleLog
        /\ IF done.propagates
           THEN /\ AgentLoopCatch(done.message)
                /\ UNCHANGED <<idx, toolResult, answered, pending>>
           ELSE IF done.suspends
                THEN /\ pc' = "delay"
                     /\ pending' = Awaiting("tool")
                     /\ UNCHANGED <<conversation, idx, toolResult, answered, shownError,
                                    isProcessing>>
                ELSE /\ PushToolTurn(toolCall, done)
                     /\ UNCHANGED <<shownError, isProcessing, pending>>
        /\ UNCHANGED <<llmConfig, batch, request, modelCalls, responses, emitted, accepted,
                       lastCall>>

\* the handler's delay() elapses and handleToolCall pushes its result
DelayElapsed ==
    LET toolCall == batch[idx]
        done     == ToolCallOutcome(toolCall, consoleLog)
    IN  /\ pc = "delay"
        /\ PushToolTurn(toolCall, done)
        /\ pending' = Settled("tool")
        /\ UNCHANGED <<llmConfig, isProcessing, batch, request, shownError, consoleLog,
                       modelCalls, toolExecs, responses, emitted, accepted, lastCall>>

(***************************************************************************)
(* clearConversation.                                                      *)
(***************************************************************************)
\* a clear that also abandons the loop in flight
clearConversationStopsLoop ==
    /\ Interruptible
    /\ conversation' = <<>>
    /\ isProcessing' = FALSE
    /\ pc' = "AwaitingUser"
    /\ pending' = NonePending
    /\ UNCHANGED <<llmConfig, batch, idx, request, shownError, toolResult, consoleLog,
                   answered, modelCalls, toolExecs, responses, emitted, accepted, lastCall>>

\* a clear that keeps the first turn
clearConversationKeepsFirst ==
    /\ Interruptible
    /\ conversation' = IF conversation = <<>> THEN <<>> ELSE <<Head(conversation)>>
    /\ UNCHANGED <<llmConfig, isProcessing, pc, batch, idx, request, shownError, toolResult,
                   consoleLog, pending, answered, modelCalls, toolExecs, responses, emitted,
                   accepted, lastCall>>

clearConversation ==
    /\ Interruptible
    /\ conversation' = <<>>
    /\ UNCHANGED <<llmConfig, isProcessing, pc, batch, idx, request, shownError, toolResult,
                   consoleLog, pending, answered, modelCalls, toolExecs, responses, emitted,
                   accepted, lastCall>>

\* the backend answers with any message within the bounds
ModelResponds ==
    \E message \in Messages(MaxToolCalls - emitted, emitted) : MessageReceived(message)

Next ==
    \/ \E apiKey \in {"", "sk-test"} : saveLLMConfiguration(apiKey)
    \/ \E input \in Inputs : handleUserMessage(input)
    \/ callLLM
    \/ FetchRejected
    \/ \E status \in Statuses : FetchResolved(status)
    \/ \E error \in PayloadErrors : PayloadRejected(error)
    \/ ModelResponds
    \/ handleToolCall
    \/ DelayElapsed
    \/ clearConversation

Spec == Init /\ [][Next]_vars

\* what the event loop guarantees: a runnable continuation of agentLoop is
\* run, and the timer of delay() fires.  Nothing in callLLM settles a fetch
\* or a response.json() the backend leaves unanswered, so the steps that
\* end a model call are not fair.
Fairness == WF_vars(callLLM) /\ WF_vars(handleToolCall) /\ WF_vars(DelayElapsed)

SpecFair == Spec /\ Fairness

TypeOK ==
    /\ llmConfig \in {NoConfig, SavedConfig}
    /\ isProcessing \in BOOLEAN
    /\ pc \in PcValues
    /\ idx \in 0..Len(batch)
    /\ emitted \in 0..MaxToolCalls
    /\ accepted \in 0..MaxSubmits
    /\ consoleLog \in {"native", "capture"}
    /\ pending \in [{"model", "tool"} -> 0..1]
    /\ \A i \in 1..Len(conversation) : conversation[i].role \in {"user", "assistant", "tool"}

(***************************************************************************)
(* The loop against a stub backend that answers the first model call of an *)
(* invocation with one tool call and every later one with none; no request *)
(* fails and the conversation is not cleared.                              *)
(***************************************************************************)
StubMessages ==
    { m \in Messages(MaxToolCalls - emitted, emitted) :
        Len(m.tool_calls) = IF modelCalls = 1 THEN 1 ELSE 0 }

StubResponds == \E message \in StubMessages : MessageReceived(message)

NextStub ==
    \/ \E apiKey \in {"", "sk-test"} : saveLLMConfiguration(apiKey)
    \/ \E input \in Inputs : handleUserMessage(input)
    \/ callLLM
    \/ \E status \in {200} : FetchResolved(status)
    \/ StubResponds
    \/ handleToolCall
    \/ DelayElapsed

SpecStub == Init /\ [][NextStub]_vars

(***************************************************************************)
(* Properties.                                                             *)
(***************************************************************************)
LoopEnded == pc \in {"AwaitingUser", "Failed"}

Last(seq) == seq[Len(seq)]

\* C1: whenever agentLoop is about to make a model call, the tool turns
\* pushed since the last assistant turn answer that turn's tool calls one
\* for one and in the order issued (none when it issued none).
C1_BatchAnsweredBeforeModelCall == pc = "loop" => answered = Ids(batch)

\* C2: a step of handleToolCall never takes agentLoop to its catch block:
\* it either waits on the handler or pushes one tool turn carrying the id
\* of the call, and the loop goes on with the batch or the next model call.
C2_handleToolCallTotal ==
    [][(pc = "exec" \/ (pc = "delay" /\ idx' # idx)) =>
          /\ pc' \in {"exec", "loop", "delay"}
          /\ pc' # "delay" =>
                /\ Len(conversation') = Len(conversation) + 1
                /\ Last(conversation').role = "tool"
                /\ Last(conversation').tool_call_id = batch[idx].id]_vars

\* C3: every tool turn of the conversation is preceded by an assistant
\* turn, and the nearest one before it issued a tool call with its id.
C3_ToolTurnsFollowTheirAssistantTurn ==
    \A i \in 1..Len(conversation) :
        conversation[i].role = "tool" =>
            \E j \in 1..(i - 1) :
                /\ conversation[j].role = "assistant"
                /\ \A k \in (j + 1)..(i - 1) : conversation[k].role # "assistant"
                /\ \E c \in 1..Len(conversation[j].tool_calls) :
                       conversation[j].tool_calls[c].id = conversation[i].tool_call_id

\* C4: a call of handleUserMessage made while isProcessing is true changes
\* nothing but the history of calls: no turn is appended, no loop or model
\* call starts, nothing is kept for later, and isProcessing stays true.
C4_BusyCallRejected ==
    [][(isProcessing /\ \E input \in Inputs : handleUserMessage(input)) =>
          /\ isProcessing'
          /\ UNCHANGED <<conversation, llmConfig, pc, batch, idx, request, shownError, toolResult,
                         consoleLog, pending, answered, modelCalls, toolExecs, responses,
                         emitted, accepted>>]_vars

\* a call was accepted and the next one arrived while its loop was running
C4_Witness == lastCall = "busy" /\ accepted = 1 /\ isProcessing /\ pc = "fetch"

\* C5: the step on which a model call fails (fetch rejected, status not OK,
\* payload without the expected fields) leaves the conversation as it was,
\* ends the loop in the failed state with isProcessing false, and shows the
\* error to the user.
C5_FailedModelCallAppendsNothing ==
    [][(pc \in {"fetch", "json"} /\ pc' = "Failed") =>
          /\ conversation' = conversation
          /\ ~isProcessing'
          /\ shownError' # NoError]_vars

\* the backend answered the first request of a conversation with status 500
C5_Witness ==
    /\ pc = "Failed"
    /\ shownError = <<"LLM API error: ", "500">>
    /\ conversation = <<UserTurn(<<"h", "i">>)>>
    /\ ~isProcessing

\* C6: handling a tool call whose name is not registered and whose
\* arguments parse as JSON pushes one failure tool turn that says
\* "Unknown tool" and names the tool, and the loop goes on.
C6_UnknownToolAnswered ==
    [][(pc = "exec" /\ batch[idx].name \notin RegisteredNames
          /\ ~JSONParse(batch[idx].arguments).threw) =>
          /\ conversation' = Append(conversation,
                 ToolTurn(batch[idx].id,
                          <<"Tool execution failed: ", "Unknown tool: ", batch[idx].name>>))
          /\ toolResult'.isError
          /\ pc' \in {"exec", "loop"}]_vars

\* the arguments of a call are an object without a field its tool requires
LacksRequired(call) ==
    /\ call.name \in RegisteredNames
    /\ ~JSONParse(call.arguments).threw
    /\ JSONParse(call.arguments).tag = "object"
    /\ \E key \in RequiredOf(call.name) : Field(JSONParse(call.arguments), key) = Undefined

\* C7: the result shown and pushed for a call of a registered tool whose
\* arguments lack a required field is a failure, never a success payload.
C7_MissingFieldFails == LacksRequired(toolResult.call) => toolResult.isError

\* the code of an execute_js call throws when evaluated
CodeThrows(call) ==
    /\ call.name = "execute_js"
    /\ ~JSONParse(call.arguments).threw
    /\ JSONParse(call.arguments).tag = "object"
    /\ Eval(Field(JSONParse(call.arguments), "code")).threw

Contains(text, fragment) == \E i \in 1..Len(text) : text[i] = fragment

\* C8: when the code of an execute_js call throws, the call is answered by
\* a failure tool turn that contains the message of the error thrown, and
\* once the loop has left the batch every call of the batch has been
\* answered, in order.
C8_FaultIsolated ==
    /\ CodeThrows(toolResult.call) =>
          /\ toolResult.isError
          /\ Contains(toolResult.result,
                      Eval(Field(JSONParse(toolResult.call.arguments), "code")).message)
    /\ (pc \notin {"exec", "delay"}
          /\ \E i \in 1..Len(batch) :
                 CodeThrows(batch[i]) /\ \E a \in 1..Len(answered) : answered[a] = batch[i].id)
       => answered = Ids(batch)

\* C9: against the stub backend, once the loop started by the first
\* accepted user turn has ended, it has made two model calls and executed
\* one tool, and the conversation is user, assistant with one tool call,
\* the tool turn answering it, assistant without tool calls.
C9_LoopContinuation ==
    (accepted = 1 /\ LoopEnded) =>
        /\ modelCalls = 2
        /\ toolExecs = 1
        /\ Len(conversation) = 4
        /\ conversation[1].role = "user"
        /\ conversation[2].role = "assistant" /\ Len(conversation[2].tool_calls) = 1
        /\ conversation[3].role = "tool"
        /\ conversation[3].tool_call_id = conversation[2].tool_calls[1].id
        /\ conversation[4].role = "assistant" /\ Len(conversation[4].tool_calls) = 0

\* C10: as long as every response of an invocation of agentLoop has had no
\* tool calls, the invocation has ended after its first response: one model
\* call, no tool executed, isProcessing false, waiting for the user.
C10_LoopTermination ==
    (responses # <<>> /\ \A i \in 1..Len(responses) : responses[i] = 0) =>
        /\ pc = "AwaitingUser"
        /\ ~isProcessing
        /\ Len(responses) = 1
        /\ modelCalls = 1
        /\ toolExecs = 0

\* a user turn was answered by a response without tool calls
C10_Witness ==
    /\ responses = <<0>>
    /\ pc = "AwaitingUser"
    /\ Len(conversation) = 2
    /\ conversation[1].role = "user"
    /\ conversation[2].role = "assistant"
    /\ ~conversation[2].has_tool_calls

\* C11: at every moment the session has at most one await outstanding: at
\* most one model call pending, at most one tool handler pending, and never
\* one of each, whatever the user submits while the loop is suspended.
C11_OneSuspensionPoint ==
    /\ pending.model <= 1
    /\ pending.tool <= 1
    /\ pending.model + pending.tool <= 1

\* the user submitted a message while a tool handler was waiting
C11_Witness == lastCall = "busy" /\ pending.tool = 1 /\ pc = "delay"

\* C12: when a model call ends without a response (fetch rejected, status
\* not OK, unusable payload) the invocation of agentLoop ends in the failed
\* state having made no further model call and run no tool; from the failed
\* state nothing calls the model or runs a tool until a new user turn is
\* accepted.
C12_NoAutomaticRetry ==
    [][/\ (pc \in {"fetch", "json"} /\ pending'.model < pending.model
             /\ responses' = responses) =>
             /\ pc' = "Failed"
             /\ ~isProcessing'
             /\ modelCalls' = modelCalls
             /\ toolExecs' = toolExecs
       /\ pc = "Failed" =>
             \/ pc' = "Failed" /\ modelCalls' = modelCalls /\ toolExecs' = toolExecs
             \/ accepted' = accepted + 1 /\ Last(conversation').role = "user"]_vars

\* after a rejected fetch the user submitted again, and the model is called
\* for the first time in the new invocation
C12_Witness ==
    /\ shownError = <<"Failed to fetch">>
    /\ accepted = 2
    /\ pc = "fetch"
    /\ modelCalls = 1

\* C13: console.log is bound to the function it was bound to before any
\* execute_js call, in every state the loop can be observed in: executeJS
\* runs to its end within one step, and each of its exits (the code
\* returned, the code threw, the value could not be printed) has put the
\* original function back.
C13_ConsoleLogRestored == consoleLog = "native"

\* a batch of two execute_js calls, the first throwing and the second
\* returning, has been answered
C13_Witness ==
    /\ Len(batch) = 2
    /\ CodeThrows(batch[1])
    /\ batch[2].name = "execute_js"
    /\ batch[2].arguments = ArgsCodeLog
    /\ answered = Ids(batch)
    /\ toolResult.call = batch[2]
    /\ ~toolResult.isError

\* the call is an execute_js call whose code evaluates without throwing
RanCleanly(call) ==
    /\ call.name = "execute_js"
    /\ ~JSONParse(call.arguments).threw
    /\ JSONParse(call.arguments).tag = "object"
    /\ ~Eval(Field(JSONParse(call.arguments), "code")).threw

Position(text, fragment) == CHOOSE i \in 1..Len(text) : text[i] = fragment

\* C14: the result of an execute_js call whose code evaluates without
\* throwing is a success payload: the fixed text exactly when nothing was
\* logged and the value is undefined; otherwise a "Console Output" section
\* exactly when something was logged and a "Return Value" section exactly
\* when the value is not undefined, the former before the latter.
C14_ExecuteJsPayload ==
    RanCleanly(toolResult.call) =>
        LET ran  == Eval(Field(JSONParse(toolResult.call.arguments), "code"))
            text == toolResult.result
        IN  /\ ~toolResult.isError
            /\ text = <<"Code executed successfully (no output)">>
                  <=> (ran.logs = <<>> /\ ran.value = Undefined)
            /\ Contains(text, "Console Output:\n") <=> ran.logs # <<>>
            /\ Contains(text, "Return Value:\n") <=> ran.value # Undefined
            /\ (ran.logs # <<>> /\ ran.value # Undefined) =>
                  Position(text, "Console Output:\n") < Position(text, "Return Value:\n")

IsPrefix(p, q) == Len(p) <= Len(q) /\ SubSeq(q, 1, Len(p)) = p

\* C15: every step that is not a step of clearConversation leaves the turns
\* the conversation already holds where and as they were: the conversation
\* before the step is a prefix of the conversation after it.
C15_AppendOnly ==
    [][~clearConversation => IsPrefix(conversation, conversation')]_vars

\* a user turn, a response with a tool call, its tool turn and a second user
\* turn were appended, and the model call that followed failed
C15_Witness ==
    /\ pc = "Failed"
    /\ shownError = <<"Failed to fetch">>
    /\ Len(conversation) = 4
    /\ conversation[1].role = "user"
    /\ conversation[2].role = "assistant"
    /\ conversation[3].role = "tool"
    /\ conversation[4].role = "user"

\* C16: whenever the loop is running (isProcessing is true), isProcessing
\* is eventually false again, even if the backend never answers: every
\* await of the loop ends within a bounded time, by its result or by a
\* timeout handled like a transport error.
C16_BusyEventuallyReleased == isProcessing ~> ~isProcessing

C18_ClearEmpties == [][clearConversation => conversation' = <<>>]_vars

\* a user turn and the response to it had been appended, the loop has ended,
\* and the conversation is empty
C18_Witness ==
    /\ conversation = <<>>
    /\ accepted = 1
    /\ responses = <<0>>
    /\ pc = "AwaitingUser"

\* C19: while the for-loop is at call idx of the batch (about to start its
\* handler, or waiting for it), the tool turns pushed since the assistant
\* turn answer exactly the calls before it, in the order issued, and at
\* most one handler is waiting.
C19_ToolCallsSequential ==
    /\ pc \in {"exec", "delay"} =>
          /\ idx \in 1..Len(batch)
          /\ answered = SubSeq(Ids(batch), 1, idx - 1)
    /\ pending.tool <= 1
    /\ pending.tool = 1 <=> pc = "delay"

\* the handler of the second call of a batch is waiting, the first call
\* (also a waiting handler) having been answered
C19_Witness ==
    /\ pc = "delay"
    /\ idx = 2
    /\ batch[1].name = "search_web"
    /\ batch[2].name = "ai_pipe"
    /\ answered = <<batch[1].id>>

\* C20: agentLoop holds control (isProcessing) exactly while it is neither
\* waiting for the user nor failed; it gives control back only on the step
\* that receives a response without tool calls or on the step that catches
\* an error; the step that answers the last call of a batch leads to a
\* model call without giving control back; and the model call is enabled
\* whenever the loop comes round, however many rounds it has made.
C20_ControlReturns ==
    /\ [](isProcessing <=> ~LoopEnded)
    /\ [](pc = "loop" => ENABLED callLLM)
    /\ [][/\ (isProcessing /\ ~isProcessing') =>
                \/ /\ pc = "json" /\ pc' = "AwaitingUser"
                   /\ Len(responses') = Len(responses) + 1
                   /\ Last(responses') = 0
                \/ pc' = "Failed" /\ shownError' # NoError
          /\ (pc \in {"exec", "delay"} /\ answered' # answered /\ answered' = Ids(batch)) =>
                pc' = "loop" /\ isProcessing'
          /\ pc = "loop" => (pc' = "fetch" /\ modelCalls' = modelCalls + 1 /\ isProcessing')]_vars

\* one invocation made three model calls, the first two answered with a
\* tool call each, and gave control back after the third
C20_Witness ==
    /\ responses = <<1, 1, 0>>
    /\ modelCalls = 3
    /\ toolExecs = 2
    /\ pc = "AwaitingUser"
    /\ ~isProcessing

\* C21: isProcessing is true in exactly the states in which an invocation
\* of agentLoop is under way.  It becomes true only on the step that accepts
\* a user turn, which appends that turn and precedes the invocation's first
\* model call; it becomes false only on a step that ends the invocation;
\* and once the invocation has ended, normally or by an error, a message
\* submitted with a saved configuration is accepted.
C21_BusyWhileLoopActive ==
    /\ [](isProcessing <=> pc \in {"loop", "fetch", "json", "exec", "delay"})
    /\ [][/\ (~isProcessing /\ isProcessing') =>
                /\ accepted' = accepted + 1
                /\ Len(conversation') = Len(conversation) + 1
                /\ Last(conversation').role = "user"
                /\ pc' = "loop"
                /\ modelCalls' = 0
                /\ pending' = NonePending
          /\ (isProcessing /\ ~isProcessing') => (~LoopEnded /\ LoopEnded')
          /\ (LoopEnded /\ llmConfig # NoConfig /\ handleUserMessage(<<"h", "i">>)) =>
                (isProcessing' /\ lastCall' = "accepted")]_vars

\* an invocation ended by an error (status 500), a later user turn was
\* accepted and its invocation is waiting on a tool handler
C21_Witness ==
    /\ shownError = <<"LLM API error: ", "500">>
    /\ accepted = 2
    /\ isProcessing
    /\ pc = "delay"

\* the turns of the messages that answer the tool call with the given id
Answers(messages, id) ==
    {i \in 1..Len(messages) : messages[i].role = "tool" /\ messages[i].tool_call_id = id}

\* C22: on the step that sends a model request, the request's messages are
\* the conversation as it stands, its tools are the registry of three
\* tools, and the messages hold the turns appended so far: a user turn (the
\* one that started the invocation, or an earlier one too), and one tool
\* turn for each call answered in the preceding batch, in the order
\* answered.
C22_RequestCarriesConversation ==
    [][(pc = "loop" /\ pc' = "fetch") =>
          LET messages == request'.messages IN
          /\ messages = conversation
          /\ request'.tools = initializeTools
          /\ Len(request'.tools) = 3
          /\ \E i \in 1..Len(messages) : messages[i].role = "user"
          /\ \A k \in 1..Len(answered) : Cardinality(Answers(messages, answered[k])) = 1
          /\ \A k \in 1..(Len(answered) - 1) :
                \A a \in Answers(messages, answered[k]) :
                    \A b \in Answers(messages, answered[k + 1]) : a < b]_vars

\* C23: a step that removes turns from the conversation (only
\* clearConversation does) changes nothing else: isProcessing, the
\* configuration, the loop's position, its batch and its pending await are
\* as before, so that a loop in flight goes on; in particular a handler's
\* delay that was running still elapses and its tool turn is appended.
C23_ClearLeavesLoopRunning ==
    /\ [](pc = "delay" => ENABLED DelayElapsed)
    /\ [][Len(conversation') < Len(conversation) =>
             /\ conversation' = <<>>
             /\ UNCHANGED <<isProcessing, llmConfig, pc, batch, idx, request, pending,
                            answered, modelCalls, toolExecs, responses, consoleLog>>]_vars

\* the conversation was cleared while the first request was pending, and
\* the loop went on: the response and the tool turn answering its call are
\* all the conversation holds, and the loop is about to call the model again
C23_Witness ==
    /\ accepted = 1
    /\ isProcessing
    /\ pc = "loop"
    /\ Len(conversation) = 2
    /\ conversation[1].role = "assistant"
    /\ conversation[2].role = "tool"
    /\ conversation[2].tool_call_id = conversation[1].tool_calls[1].id

\* the text holds nothing but spaces (it may be empty)
Blank(input) == \A i \in 1..Len(input) : input[i] = " "

\* C24: a call of handleUserMessage whose message is empty or only
\* whitespace, or that is made while no configuration is saved, changes
\* nothing but the history of calls: the conversation and isProcessing are
\* as before, no loop starts and no model call is made.
C24_RejectedCallChangesNothing ==
    [][(\E input \in Inputs :
           (Blank(input) \/ llmConfig = NoConfig) /\ handleUserMessage(input)) =>
          UNCHANGED <<conversation, llmConfig, isProcessing, pc, batch, idx, request,
                      shownError, toolResult, consoleLog, pending, answered, modelCalls,
                      toolExecs, responses, emitted, accepted>>]_vars

\* with a configuration saved and no loop running, a blank message was
\* submitted after an earlier turn had been answered
C24_Witness ==
    /\ lastCall = "empty"
    /\ llmConfig = SavedConfig
    /\ ~isProcessing
    /\ accepted = 1
    /\ Len(conversation) = 2

====
